---- MODULE Spec2Model ----
(***************************************************************************)
(* ngx-translate-db: TranslateService and TranslationDBService as shipped  *)
(* in dist/fesm2022/ngx-translate-db.mjs.                                  *)
(*                                                                         *)
(* JavaScript is single-threaded: a handler runs without interruption up   *)
(* to its next await.  Every action below is one such run.  Continuations  *)
(* of already settled promises (microtasks) run before the completion of   *)
(* any IndexedDB request, of openDB or of fetch (macrotasks).  IndexedDB   *)
(* executes the read/write transactions on the one object store in the     *)
(* order in which they were created, so the requests form a FIFO queue.    *)
(***************************************************************************)
EXTENDS Integers, Sequences, FiniteSets, TLC

\* ------------------------------------------------------------------ bounds
\* the application makes at most MaxCalls calls of init, setLanguage,
\* translate, clearModuleCache and clearAllCache
MaxCalls == 3

\* ------------------------------------------------------------- data values
\* JavaScript's undefined, as the value of a missing property
Undefined == "<undefined>"

Keys == {"K1", "K2"}
Langs == {"en", "fr", "de"}

\* the keys translate is called with (instant is evaluated for every key)
TranslateKeys == {"K1"}

EmptyMap == [k \in {} |-> <<>>]

\* A translation value is an object: its properties in insertion order.
Login == <<[lang |-> "en", text |-> "Login"]>>
Hello == <<[lang |-> "en", text |-> "Hello"], [lang |-> "fr", text |-> "Bonjour"]>>
DeIt == <<[lang |-> "de", text |-> "Hallo"], [lang |-> "it", text |-> "Ciao"]>>
EmptyText == <<[lang |-> "fr", text |-> ""], [lang |-> "en", text |-> "Empty"]>>
NoLang == <<>>

\* Contents the durable store may have before the service is constructed.
InitialStores == {EmptyMap, [k \in Keys |-> IF k = "K1" THEN Login ELSE Hello]}

\* Bodies the endpoint may answer with (response.json()).
FetchData ==
    { [k \in Keys |-> IF k = "K1" THEN Hello ELSE DeIt],
      [k \in Keys |-> IF k = "K1" THEN EmptyText ELSE NoLang],
      EmptyMap }

\* TranslationConfig values passed to init
CfgA == [defaultLang |-> "en", acceptedLanguages |-> <<"en", "fr">>]
CfgB == [defaultLang |-> "fr", acceptedLanguages |-> <<"en", "fr">>]
CfgBad == [defaultLang |-> "de", acceptedLanguages |-> <<"en", "fr">>]
CfgNoLangs == [defaultLang |-> "en", acceptedLanguages |-> <<>>]
Configs == {CfgA, CfgB, CfgBad, CfgNoLangs}
NoConfig == [defaultLang |-> Undefined, acceptedLanguages |-> <<>>]

Range(s) == {s[i] : i \in 1..Len(s)}

\* obj[prop] on a translation value
Prop(obj, prop) ==
    IF \E i \in 1..Len(obj) : obj[i].lang = prop
    THEN obj[CHOOSE i \in 1..Len(obj) : obj[i].lang = prop].text
    ELSE Undefined

\* array[0]
First(arr) == IF Len(arr) > 0 THEN arr[1] ELSE Undefined

\* JavaScript truthiness of a string-or-undefined value
Truthy(v) == v # Undefined /\ v # ""

\* The keys of a mapping in ascending order (IndexedDB key order)
RECURSIVE SortedKeys(_)
SortedKeys(S) ==
    IF S = {} THEN <<>>
    ELSE LET m == CHOOSE x \in S : \A y \in S : (x = "K1") \/ (y # "K1")
         IN <<m>> \o SortedKeys(S \ {m})

\* map.set(key, value)
MapSet(m, k, v) == [x \in (DOMAIN m) \cup {k} |-> IF x = k THEN v ELSE m[x]]

\* every entry of src set into m
MapSetAll(m, src) == [x \in (DOMAIN m) \cup (DOMAIN src) |-> IF x \in DOMAIN src THEN src[x] ELSE m[x]]

VARIABLES
    db,                 \* TranslationDBService.db: "undefined", "open", "closed", "null"
    store,              \* records of the 'translations' object store
    dbQueue,            \* IndexedDB requests issued and not yet completed
    currentLang,        \* TranslateService.currentLang
    acceptedLanguages,  \* TranslateService.acceptedLanguages
    translations,       \* TranslateService.translations (the in-memory Map)
    loadingState,       \* TranslateService.loadingState.value
    langChangeSubject,  \* TranslateService.langChangeSubject.value
    initPromise,        \* TranslateService.initPromise: "null", "pending", "resolved", "rejected"
    config,             \* the config captured by the initialization closure
    initPc,             \* position of the initialization closure
    response,           \* the data of response.json()
    fetchOutcome,       \* how the fetch ended: "none", "ok", "failed"
    cachedEntries,      \* allEntries in getAllFromCache
    callers,            \* the promises returned by the calls of init
    setLangQ,           \* setLanguage calls suspended in waitForInitialization
    clearOps,           \* the calls of clearModuleCache / clearAllCache
    lastSet,            \* the last setLanguage that was applied
    nCalls,             \* number of calls made by the application
    dbOpens,            \* number of openDB calls
    fetches,            \* number of fetch calls
    loadPasses,         \* number of loadTranslations calls
    populated,          \* what the population pass has put in the snapshot
    failedPuts,         \* keys whose durable write was rejected
    initialStore,       \* the store as it was at construction
    cacheRead,          \* how getAllFromCache ended: "none", "ok", "failed"
    translateOps,       \* the calls of translate
    dbCall,             \* the last call the application made of a TranslationDBService method
    pipe                \* the subscription to the observable of TranslatePipe.transform

vars == <<db, store, dbQueue, currentLang, acceptedLanguages, translations,
          loadingState, langChangeSubject, initPromise, config, initPc,
          response, fetchOutcome, cachedEntries, callers, setLangQ, clearOps,
          lastSet, nCalls, dbOpens, fetches, loadPasses, populated, failedPuts, initialStore, cacheRead, translateOps, dbCall, pipe>>

dbVars == <<db, store, dbQueue>>
langVars == <<currentLang, langChangeSubject, lastSet, pipe>>
initVars == <<initPromise, config, initPc, response, fetchOutcome, cachedEntries, loadingState>>
countVars == <<dbOpens, fetches, loadPasses>>

NoCall ==
    [op |-> "none", db |-> "undefined", ok |-> TRUE, settled |-> "none",
     logged |-> "none", result |-> "void", entries |-> EmptyMap]

\* no subscriber yet
NoPipe == [key |-> "", subscribed |-> FALSE, count |-> 0, last |-> Undefined]

NoSet == [user |-> FALSE, loading |-> TRUE, supported |-> TRUE]

Init ==
    /\ db = "undefined"
    /\ store \in InitialStores
    /\ initialStore = store
    /\ dbQueue = <<>>
    /\ currentLang = "en"
    /\ acceptedLanguages = <<>>
    /\ translations = EmptyMap
    /\ loadingState = TRUE
    /\ langChangeSubject = "en"
    /\ initPromise = "null"
    /\ config = NoConfig
    /\ initPc = "idle"
    /\ response = EmptyMap
    /\ fetchOutcome = "none"
    /\ cachedEntries = <<>>
    /\ callers = <<>>
    /\ setLangQ = <<>>
    /\ clearOps = <<>>
    /\ lastSet = NoSet
    /\ nCalls = 0
    /\ dbOpens = 0
    /\ fetches = 0
    /\ loadPasses = 0
    /\ populated = EmptyMap
    /\ failedPuts = {}
    /\ cacheRead = "none"
    /\ translateOps = <<>>
    /\ dbCall = NoCall
    /\ pipe = NoPipe

\* ------------------------------------------------------------ TranslateService: lookups

\* a fallback that gives up with an empty text instead of the key
getTranslationFallbackEmpty(key) ==
    IF key \in DOMAIN translations
    THEN LET translation == translations[key]
             defaultValue == Prop(translation, First(acceptedLanguages))
         IN IF Truthy(defaultValue) THEN defaultValue
            ELSE IF Len(translation) > 0 THEN translation[1].text
            ELSE key
    ELSE ""

getTranslationFallback(key) ==
    IF key \in DOMAIN translations
    THEN LET translation == translations[key]
             defaultValue == Prop(translation, First(acceptedLanguages))
         IN IF Truthy(defaultValue) THEN defaultValue
            ELSE IF Len(translation) > 0 THEN translation[1].text
            ELSE key
    ELSE key

\* a lookup that ignores the current language
getTranslationDefaultOnly(key) == getTranslationFallback(key)

getTranslation(key) ==
    IF key \notin DOMAIN translations
    THEN getTranslationFallback(key)
    ELSE LET value == Prop(translations[key], currentLang)
         IN IF value # Undefined THEN value ELSE getTranslationFallback(key)

instant(key) ==
    IF initPromise = "null" THEN key
    ELSE IF loadingState THEN getTranslationFallback(key)
    ELSE getTranslation(key)

\* ------------------------------------------------------------ TranslateService: language

isLanguageSupported(lang, accepted) ==
    IF loadingState THEN TRUE ELSE lang \in Range(accepted)

\* a setLanguage that always assigns the first accepted language
resolveLanguageFirst(lang, accepted) == First(accepted)

\* the language setLanguage(lang) ends up assigning
resolveLanguage(lang, accepted) ==
    IF isLanguageSupported(lang, accepted) THEN lang ELSE First(accepted)

\* what instant(key) returns with the language lang assigned to currentLang
instantUnder(key, lang) ==
    IF initPromise = "null" THEN key
    ELSE IF loadingState THEN getTranslationFallback(key)
    ELSE IF key \notin DOMAIN translations THEN getTranslationFallback(key)
    ELSE LET value == Prop(translations[key], lang)
         IN IF value # Undefined THEN value ELSE getTranslationFallback(key)

\* subscribers that run before "this.currentLang = lang"
pipeLanguageBefore(lang) == currentLang

\* "this.currentLang = lang" precedes "this.langChangeSubject.next(lang)":
\* the subscribers run with the new language assigned
pipeLanguage(lang) == lang

\* langChangeSubject.next(lang) reaches the subscriber of the pipe's
\* observable: "map(() => this.translateService.instant(key))"
pipeNext(lang) ==
    IF pipe.subscribed
    THEN [pipe EXCEPT !.count = @ + 1, !.last = instantUnder(pipe.key, pipeLanguage(lang))]
    ELSE pipe

\* a setLanguage that assigns currentLang and emits nothing
applyLanguageSilent(lang, accepted, user) ==
    /\ currentLang' = resolveLanguage(lang, accepted)
    /\ langChangeSubject' = langChangeSubject
    /\ pipe' = pipe
    /\ lastSet' = [user |-> user, loading |-> loadingState, supported |-> lang \in Range(accepted)]

\* the two assignments at the end of setLanguage
applyLanguage(lang, accepted, user) ==
    /\ currentLang' = resolveLanguage(lang, accepted)
    /\ langChangeSubject' = resolveLanguage(lang, accepted)
    /\ pipe' = pipeNext(resolveLanguage(lang, accepted))
    /\ lastSet' = [user |-> user, loading |-> loadingState, supported |-> lang \in Range(accepted)]

\* a setLanguage that suspends while the translations are loading
setLanguageWaitsWhileLoading == initPromise # "null" /\ loadingState

\* setLanguage suspends in waitForInitialization only when init has finished
setLanguageWaits == initPromise # "null" /\ ~loadingState

\* setLanguage(lang), up to its await or, without one, to its end
SetLanguage(lang) ==
    /\ nCalls < MaxCalls
    /\ nCalls' = nCalls + 1
    /\ IF setLanguageWaits
       THEN /\ setLangQ' = Append(setLangQ, lang)
            /\ UNCHANGED langVars
       ELSE /\ applyLanguage(lang, acceptedLanguages, TRUE)
            /\ UNCHANGED setLangQ
    /\ UNCHANGED <<dbVars, acceptedLanguages, translations, initVars, callers,
                   clearOps, countVars, populated, failedPuts, initialStore, cacheRead, translateOps>>
    /\ UNCHANGED dbCall

\* setLanguage resumed after "await this.waitForInitialization()"
SetLanguageResume ==
    /\ setLangQ # <<>>
    /\ initPromise = "resolved"
    /\ applyLanguage(Head(setLangQ), acceptedLanguages, TRUE)
    /\ setLangQ' = Tail(setLangQ)
    /\ UNCHANGED <<dbVars, acceptedLanguages, translations, initVars, callers,
                   clearOps, nCalls, countVars, populated, failedPuts, initialStore, cacheRead, translateOps>>
    /\ UNCHANGED dbCall

\* ------------------------------------------------------------ TranslateService: init

\* a validation that only asks for a non-empty list of languages
validateConfigNonEmpty(cfg) == Len(cfg.acceptedLanguages) > 0

validateConfig(cfg) ==
    /\ Len(cfg.acceptedLanguages) > 0
    /\ cfg.defaultLang \in Range(cfg.acceptedLanguages)

\* a guard that never joins: every call starts an initialization
initJoinsNever == FALSE

\* a guard on completion instead of on the pending promise
initJoinsWhenDone == initPromise \in {"resolved", "rejected"}

\* a guard that lets a finished service be initialized again
initJoinsWhilePending == initPromise = "pending"

\* "if (this.initPromise) return this.initPromise"
initJoins == initPromise # "null"

\* a joining call that takes over the languages of its own config
acceptedAfterJoinAdopted(cfg) == cfg.acceptedLanguages

\* a joining call returns before "this.acceptedLanguages = [...]" is reached
acceptedAfterJoin(cfg) == acceptedLanguages

\* a validation failure that leaves a rejected promise to join
initPromiseAfterInvalidRejected == "rejected"

\* validateConfig throws before "this.initPromise = ..." is reached
initPromiseAfterInvalid == initPromise

\* an initialization that starts in the first accepted language
initLanguageFirst(cfg) == First(cfg.acceptedLanguages)

\* the argument of "await this.setLanguage(config.defaultLang)"
initLanguage(cfg) == cfg.defaultLang

\* the promise a call of init returns, with what the call found: the state of
\* initPromise, the number of openDB calls so far, and whether a clearAllCache
\* had resolved before
Caller(cfg, st) ==
    [cfg |-> cfg, joined |-> initPromise, st |-> st, opens |-> dbOpens,
     afterAll |-> \E i \in 1..Len(clearOps) : clearOps[i].kind = "all" /\ clearOps[i].pc = "done"]

\* init(config), up to "await openDB(...)" of dbService.init: the closure
\* resumes after "await this.setLanguage(...)", which has nothing to wait for,
\* in the microtask checkpoint of the very call
InitCall(cfg) ==
    /\ nCalls < MaxCalls
    /\ nCalls' = nCalls + 1
    /\ IF initJoins
       THEN /\ callers' = Append(callers, Caller(cfg, "pending"))
            /\ acceptedLanguages' = acceptedAfterJoin(cfg)
            /\ UNCHANGED <<langVars, initVars>>
       ELSE IF ~validateConfig(cfg)
       THEN /\ callers' = Append(callers, Caller(cfg, "rejected"))
            /\ initPromise' = initPromiseAfterInvalid
            /\ UNCHANGED <<acceptedLanguages, langVars, config, initPc, response,
                           fetchOutcome, cachedEntries, loadingState>>
       ELSE /\ callers' = Append(callers, Caller(cfg, "pending"))
            /\ acceptedLanguages' = cfg.acceptedLanguages
            /\ applyLanguage(initLanguage(cfg), cfg.acceptedLanguages, FALSE)
            /\ initPromise' = "pending"
            /\ config' = cfg
            /\ initPc' = "openDB"
            /\ UNCHANGED <<response, fetchOutcome, cachedEntries, loadingState>>
    /\ dbOpens' = IF ~initJoins /\ validateConfig(cfg) THEN dbOpens + 1 ELSE dbOpens
    /\ UNCHANGED <<dbVars, translations, setLangQ, clearOps,
                   fetches, loadPasses, populated, failedPuts, initialStore, cacheRead, translateOps>>
    /\ UNCHANGED dbCall

\* the promises returned by the calls of init are resolved with initPromise:
\* their reactions run in one microtask checkpoint once initPromise has settled
CallersSettle ==
    /\ \E i \in 1..Len(callers) : callers[i].st = "pending"
    /\ initPromise \in {"resolved", "rejected"}
    /\ callers' = [i \in 1..Len(callers) |->
                      IF callers[i].st = "pending"
                      THEN [callers[i] EXCEPT !.st = initPromise]
                      ELSE callers[i]]
    /\ UNCHANGED <<dbVars, acceptedLanguages, translations, langVars, initVars,
                   setLangQ, clearOps, nCalls, countVars, populated, failedPuts, initialStore, cacheRead, translateOps>>
    /\ UNCHANGED dbCall

\* waitForInitialization, called with initPromise in the state "during", is
\* over: "if (!this.initPromise) return; await this.initPromise"
waitForInitialization(during) == during = "null" \/ initPromise # "pending"

\* a translate that does not wait for the initialization
translateResumesAtOnce(during) == TRUE

\* "await this.waitForInitialization()" of translate
translateResumes(during) == waitForInitialization(during)

\* a call of translate: the state of initPromise when it was made, the value
\* it resolved with and what instant(key) returned at that moment
TranslateOp(key, pc, result) ==
    [key |-> key, pc |-> pc, result |-> result, during |-> initPromise, instantThen |-> Undefined]

\* translate(key), up to "await this.waitForInitialization()"
Translate(key) ==
    /\ nCalls < MaxCalls
    /\ nCalls' = nCalls + 1
    /\ translateOps' = Append(translateOps, TranslateOp(key, "waiting", Undefined))
    /\ UNCHANGED <<dbVars, acceptedLanguages, translations, langVars, initVars, callers,
                   setLangQ, clearOps, countVars, populated, failedPuts, initialStore, cacheRead>>
    /\ UNCHANGED dbCall

\* translate resumed: "return this.getTranslation(key)", or the rejection of
\* initPromise passed on
TranslateResume(i) ==
    /\ i \in 1..Len(translateOps)
    /\ translateOps[i].pc = "waiting"
    /\ translateResumes(translateOps[i].during)
    /\ translateOps' = [translateOps EXCEPT ![i] =
                           IF translateOps[i].during # "null" /\ initPromise = "rejected"
                           THEN [@ EXCEPT !.pc = "rejected"]
                           ELSE [@ EXCEPT !.pc = "resolved",
                                          !.result = getTranslation(translateOps[i].key),
                                          !.instantThen = instant(translateOps[i].key)]]
    /\ UNCHANGED <<dbVars, acceptedLanguages, translations, langVars, initVars, callers,
                   setLangQ, clearOps, nCalls, countVars, populated, failedPuts,
                   initialStore, cacheRead>>
    /\ UNCHANGED dbCall

\* continuations that run before any I/O completion is delivered
MicrotaskPending ==
    \/ \E i \in 1..Len(translateOps) :
          translateOps[i].pc = "waiting" /\ translateResumes(translateOps[i].during)
    \/ initPromise = "resolved" /\ setLangQ # <<>>
    \/ initPromise \in {"resolved", "rejected"} /\ \E i \in 1..Len(callers) : callers[i].st = "pending"
    \/ \E i \in 1..Len(clearOps) :
          clearOps[i].pc = "waiting" /\ waitForInitialization(clearOps[i].during)

\* openDB settles (a rejection is caught in dbService.init); loadTranslations
\* starts and calls fetch
OpenSettle(ok) ==
    /\ initPc = "openDB"
    /\ ~MicrotaskPending
    /\ db' = IF ok THEN "open" ELSE db
    /\ initPc' = "fetch"
    /\ loadPasses' = loadPasses + 1
    /\ fetches' = fetches + 1
    /\ UNCHANGED <<store, dbQueue, acceptedLanguages, translations, langVars,
                   initPromise, config, response, fetchOutcome, cachedEntries,
                   loadingState, callers, setLangQ, clearOps, nCalls, dbOpens,
                   populated, failedPuts, initialStore, cacheRead, translateOps>>
    /\ UNCHANGED dbCall

\* a closure that ends without "this.loadingState.next(false)"
finishInitStillLoading ==
    /\ loadingState' = loadingState
    /\ initPromise' = "resolved"
    /\ initPc' = "done"

\* "this.loadingState.next(false)" and the end of the closure
finishInit ==
    /\ loadingState' = FALSE
    /\ initPromise' = "resolved"
    /\ initPc' = "done"

Request(op, key, id) == [op |-> op, key |-> key, id |-> id]

\* the put requests of Promise.all(Object.entries(data).map(...)), in order
PutRequests(data) ==
    LET ks == SortedKeys(DOMAIN data)
    IN [i \in 1..Len(ks) |-> Request("put", ks[i], 0)]

\* loadFromCache, up to the first await of getAllFromCache; with no usable
\* connection db.getAll throws, the catch returns {} and nothing is loaded
loadFromCache ==
    IF db = "open"
    THEN /\ dbQueue' = Append(dbQueue, Request("getAll", "", 0))
         /\ initPc' = "getAll"
         /\ UNCHANGED <<loadingState, initPromise, translations, populated, cacheRead>>
    ELSE /\ finishInit
         /\ cacheRead' = "failed"
         /\ UNCHANGED <<dbQueue, translations, populated>>

\* callbacks that reject on an unusable store and set nothing
setUnsavedNone(m, data) == m

\* the callbacks of loadTranslations on an unusable store: db.put throws at
\* once, saveToCache catches it, and every entry is set
setUnsaved(m, data) == MapSetAll(m, data)

\* callbacks that set their entry before saving it
setBeforeSaveAll(m, data) == MapSetAll(m, data)

\* the callbacks of loadTranslations up to "await this.dbService.saveToCache":
\* nothing is set yet
setBeforeSave(m, data) == m

\* fetch and response.json() settle: with outcome "ok" every entry of data is
\* saved and set; otherwise (response not ok, fetch rejected, body not JSON)
\* loadFromCache runs
FetchSettle(outcome, data) ==
    /\ initPc = "fetch"
    /\ ~MicrotaskPending
    /\ IF outcome = "ok"
       THEN /\ response' = data
            /\ fetchOutcome' = "ok"
            /\ IF db = "open" /\ DOMAIN data # {}
               THEN /\ dbQueue' = dbQueue \o PutRequests(data)
                    /\ initPc' = "saving"
                    /\ translations' = setBeforeSave(translations, data)
                    /\ populated' = setBeforeSave(populated, data)
                    /\ UNCHANGED <<loadingState, initPromise, cacheRead>>
               ELSE \* db.put throws at once and saveToCache catches it
                    /\ translations' = setUnsaved(translations, data)
                    /\ populated' = setUnsaved(populated, data)
                    /\ finishInit
                    /\ UNCHANGED <<dbQueue, cacheRead>>
       ELSE /\ fetchOutcome' = "failed"
            /\ loadFromCache
            /\ UNCHANGED response
    /\ UNCHANGED <<db, store, acceptedLanguages, langVars, config, cachedEntries,
                   callers, setLangQ, clearOps, nCalls, countVars, failedPuts,
                   initialStore, translateOps>>
    /\ UNCHANGED dbCall

\* ------------------------------------------------------------ IndexedDB request completions

\* a put under the one key 'all' instead of the translation key
putRecordAll(records, key, value) == MapSet(records, "all", value)

\* db.put(STORE_NAME, value, key)
putRecord(records, key, value) == MapSet(records, key, value)

\* a callback that sets the entry only when it has been stored
setAfterSaveIfStored(m, key, value, ok) == IF ok THEN MapSet(m, key, value) ELSE m

\* "await this.dbService.saveToCache(key, value); this.translations.set(key, value)":
\* saveToCache resolves whether the put succeeded (ok) or not
setAfterSave(m, key, value, ok) == MapSet(m, key, value)

\* "await this.db.put(...)" of saveToCache settles (a rejection is caught),
\* then "this.translations.set(key, value)"; after the last one Promise.all
\* resolves and the closure finishes
PutComplete(ok) ==
    /\ dbQueue # <<>>
    /\ Head(dbQueue).op = "put"
    /\ ~MicrotaskPending
    /\ LET key == Head(dbQueue).key
       IN /\ store' = IF ok THEN putRecord(store, key, response[key]) ELSE store
          /\ failedPuts' = IF ok THEN failedPuts ELSE failedPuts \cup {key}
          /\ translations' = setAfterSave(translations, key, response[key], ok)
          /\ populated' = setAfterSave(populated, key, response[key], ok)
    /\ dbQueue' = Tail(dbQueue)
    /\ IF \E i \in 1..Len(Tail(dbQueue)) : Tail(dbQueue)[i].op = "put"
       THEN UNCHANGED <<loadingState, initPromise, initPc>>
       ELSE finishInit
    /\ UNCHANGED <<db, acceptedLanguages, langVars, config, response, fetchOutcome,
                   cachedEntries, callers, setLangQ, clearOps, nCalls, countVars,
                   initialStore, cacheRead, translateOps>>
    /\ UNCHANGED dbCall

\* "await this.db.getAll(...)" of getAllFromCache settles; on success
\* db.getAllKeys is called next, on a rejection the catch returns {}
GetAllComplete(ok) ==
    /\ dbQueue # <<>>
    /\ Head(dbQueue).op = "getAll"
    /\ ~MicrotaskPending
    /\ IF ok /\ db = "open"
       THEN /\ cachedEntries' = [i \in 1..Cardinality(DOMAIN store) |-> store[SortedKeys(DOMAIN store)[i]]]
            /\ dbQueue' = Append(Tail(dbQueue), Request("getAllKeys", "", 0))
            /\ initPc' = "getAllKeys"
            /\ UNCHANGED <<loadingState, initPromise, cacheRead>>
       ELSE /\ finishInit
            /\ cacheRead' = "failed"
            /\ dbQueue' = Tail(dbQueue)
            /\ UNCHANGED cachedEntries
    /\ UNCHANGED <<db, store, acceptedLanguages, translations, langVars, config,
                   response, fetchOutcome, callers, setLangQ, clearOps, nCalls,
                   countVars, populated, failedPuts, initialStore, translateOps>>
    /\ UNCHANGED dbCall

\* a reduce that reads allKeys[index + 1]: the last entry gets no key
zipEntriesShifted(allEntries, allKeys) ==
    LET n == IF Len(allEntries) < Len(allKeys) THEN Len(allEntries) ELSE Len(allKeys)
    IN [k \in {allKeys[i + 1] : i \in 1..(n - 1)} |->
           allEntries[CHOOSE i \in 1..(n - 1) : allKeys[i + 1] = k]]

\* the reduce of getAllFromCache: allEntries[index] under allKeys[index]
zipEntries(allEntries, allKeys) ==
    LET n == IF Len(allEntries) < Len(allKeys) THEN Len(allEntries) ELSE Len(allKeys)
    IN [k \in {allKeys[i] : i \in 1..n} |-> allEntries[CHOOSE i \in 1..n : allKeys[i] = k]]

\* "await this.db.getAllKeys(...)" settles; loadFromCache sets every cached
\* entry into the snapshot and the closure finishes
GetAllKeysComplete(ok) ==
    /\ dbQueue # <<>>
    /\ Head(dbQueue).op = "getAllKeys"
    /\ ~MicrotaskPending
    /\ LET cachedTranslations == IF ok THEN zipEntries(cachedEntries, SortedKeys(DOMAIN store))
                                 ELSE EmptyMap
       IN /\ translations' = MapSetAll(translations, cachedTranslations)
          /\ populated' = MapSetAll(populated, cachedTranslations)
    /\ cacheRead' = IF ok THEN "ok" ELSE "failed"
    /\ dbQueue' = Tail(dbQueue)
    /\ finishInit
    /\ UNCHANGED <<db, store, acceptedLanguages, langVars, config, response,
                   fetchOutcome, cachedEntries, callers, setLangQ, clearOps,
                   nCalls, countVars, failedPuts, initialStore, translateOps>>
    /\ UNCHANGED dbCall

\* ------------------------------------------------------------ TranslateService: invalidation

\* a call of clearModuleCache / clearAllCache, with the keys the snapshot
\* held when it was invoked and the state of initPromise when it reached
\* waitForInitialization
ClearOp(kind, pc) ==
    [kind |-> kind, pc |-> pc, known |-> DOMAIN translations, during |-> initPromise]

\* a clear that leaves the entries in place
translationsClearNone == translations

\* "this.translations.clear()"
translationsClear == EmptyMap

\* clearModuleCache(), up to "await this.db.clear(...)" of clearCache; with no
\* usable connection the call throws, clearCache catches it and the snapshot
\* is cleared at once
ClearModuleCache ==
    /\ nCalls < MaxCalls
    /\ nCalls' = nCalls + 1
    /\ IF db = "open"
       THEN /\ dbQueue' = Append(dbQueue, Request("clear", "", Len(clearOps) + 1))
            /\ clearOps' = Append(clearOps, ClearOp("module", "clearing"))
            /\ UNCHANGED translations
       ELSE /\ translations' = translationsClear
            /\ clearOps' = Append(clearOps, ClearOp("module", "waiting"))
            /\ UNCHANGED dbQueue
    /\ UNCHANGED <<db, store, acceptedLanguages, langVars, initVars, callers,
                   setLangQ, countVars, populated, failedPuts, initialStore, cacheRead, translateOps>>
    /\ UNCHANGED dbCall

\* clearAllCache(), up to "await deleteDB(dbName)" of clearDB; without a
\* connection clearDB does nothing and the snapshot is cleared at once
ClearAllCache ==
    /\ nCalls < MaxCalls
    /\ nCalls' = nCalls + 1
    /\ IF db \in {"open", "closed"}
       THEN /\ db' = "closed"
            /\ dbQueue' = Append(dbQueue, Request("delete", "", Len(clearOps) + 1))
            /\ clearOps' = Append(clearOps, ClearOp("all", "deleting"))
            /\ UNCHANGED translations
       ELSE /\ translations' = translationsClear
            /\ clearOps' = Append(clearOps, ClearOp("all", "waiting"))
            /\ UNCHANGED <<db, dbQueue>>
    /\ UNCHANGED <<store, acceptedLanguages, langVars, initVars, callers,
                   setLangQ, countVars, populated, failedPuts, initialStore, cacheRead, translateOps>>
    /\ UNCHANGED dbCall

\* db.clear settles (a rejection is caught), then "this.translations.clear()"
ClearComplete(ok) ==
    /\ dbQueue # <<>>
    /\ Head(dbQueue).op = "clear"
    /\ ~MicrotaskPending
    /\ store' = IF ok THEN EmptyMap ELSE store
    /\ translations' = translationsClear
    /\ clearOps' = [clearOps EXCEPT ![Head(dbQueue).id].pc = "waiting",
                                    ![Head(dbQueue).id].during = initPromise]
    /\ dbQueue' = Tail(dbQueue)
    /\ UNCHANGED <<db, acceptedLanguages, langVars, initVars, callers, setLangQ,
                   nCalls, countVars, populated, failedPuts, initialStore, cacheRead, translateOps>>
    /\ UNCHANGED dbCall

\* deleteDB settles: on success "this.db = null", a rejection is caught; then
\* "this.translations.clear()"
DeleteComplete(ok) ==
    /\ dbQueue # <<>>
    /\ Head(dbQueue).op = "delete"
    /\ ~MicrotaskPending
    /\ store' = IF ok THEN EmptyMap ELSE store
    /\ db' = IF ok THEN "null" ELSE db
    /\ translations' = translationsClear
    /\ clearOps' = [clearOps EXCEPT ![Head(dbQueue).id].pc = "waiting",
                                    ![Head(dbQueue).id].during = initPromise]
    /\ dbQueue' = Tail(dbQueue)
    /\ UNCHANGED <<acceptedLanguages, langVars, initVars, callers, setLangQ,
                   nCalls, countVars, populated, failedPuts, initialStore, cacheRead, translateOps>>
    /\ UNCHANGED dbCall

\* "await this.waitForInitialization()" at the end of both operations
ClearDone(i) ==
    /\ i \in 1..Len(clearOps)
    /\ clearOps[i].pc = "waiting"
    /\ waitForInitialization(clearOps[i].during)
    /\ clearOps' = [clearOps EXCEPT ![i].pc = "done"]
    /\ UNCHANGED <<dbVars, acceptedLanguages, translations, langVars, initVars,
                   callers, setLangQ, nCalls, countVars, populated, failedPuts, initialStore, cacheRead, translateOps>>
    /\ UNCHANGED dbCall

\* ------------------------------------------------------------ TranslationDBService

\* the variables of TranslateService, which a direct call of the adapter
\* leaves alone
serviceVars == <<dbQueue, currentLang, acceptedLanguages, translations, loadingState,
                 langChangeSubject, initPromise, config, initPc, response, fetchOutcome,
                 cachedEntries, callers, setLangQ, clearOps, lastSet, nCalls, dbOpens,
                 fetches, loadPasses, populated, failedPuts, initialStore, cacheRead,
                 translateOps, pipe>>

\* values a direct call may pass to saveToCache
SavedValues == {Login, Hello}

\* what "this.db.<request>(...)" throws or rejects with inside the try of a
\* method: a TypeError without a connection object, an InvalidStateError on
\* a closed connection, the request's error when the request fails
requestError(d, ok) ==
    CASE d \in {"undefined", "null"} -> "TypeError"
      [] d = "closed" -> "InvalidStateError"
      [] d = "open" /\ ~ok -> "RequestError"
      [] OTHER -> "none"

\* methods that pass the error of the request on to their caller
methodSettlesRethrow(d, ok) == IF requestError(d, ok) = "none" THEN "resolved" ELSE "rejected"

\* ensureDBInitialized only warns, and every method catches what its request
\* throws: the promise of the method resolves
methodSettles(d, ok) == "resolved"

DbCall(op, ok, result, entries) ==
    [op |-> op, db |-> db, ok |-> ok, settled |-> methodSettles(db, ok),
     logged |-> requestError(db, ok), result |-> result, entries |-> entries]

\* init(config): openDB settles, a rejection is caught
DbInit(ok) ==
    /\ db' = IF ok THEN "open" ELSE db
    /\ dbCall' = [op |-> "init", db |-> db, ok |-> ok, settled |-> "resolved",
                  logged |-> IF ok THEN "none" ELSE "RequestError",
                  result |-> "void", entries |-> EmptyMap]
    /\ UNCHANGED <<store, serviceVars>>

\* saveToCache(key, value), from the call to its settling
SaveToCache(key, value, ok) ==
    /\ store' = IF requestError(db, ok) = "none" THEN putRecord(store, key, value) ELSE store
    /\ dbCall' = DbCall("saveToCache", ok, "void", EmptyMap)
    /\ UNCHANGED <<db, serviceVars>>

\* getFromCache(key): the record, undefined for a missing key, null from the catch
GetFromCache(key, ok) ==
    /\ dbCall' = IF requestError(db, ok) # "none" THEN DbCall("getFromCache", ok, "null", EmptyMap)
                 ELSE IF key \in DOMAIN store
                 THEN DbCall("getFromCache", ok, "value", [k \in {key} |-> store[key]])
                 ELSE DbCall("getFromCache", ok, "undefined", EmptyMap)
    /\ UNCHANGED <<db, store, serviceVars>>

\* getAllFromCache(): the reduce over getAll and getAllKeys, {} from the catch
GetAllFromCache(ok) ==
    /\ dbCall' = DbCall("getAllFromCache", ok, "map",
                        IF requestError(db, ok) # "none" THEN EmptyMap
                        ELSE zipEntries([i \in 1..Cardinality(DOMAIN store) |->
                                            store[SortedKeys(DOMAIN store)[i]]],
                                        SortedKeys(DOMAIN store)))
    /\ UNCHANGED <<db, store, serviceVars>>

\* clearCache()
ClearCache(ok) ==
    /\ store' = IF requestError(db, ok) = "none" THEN EmptyMap ELSE store
    /\ dbCall' = DbCall("clearCache", ok, "void", EmptyMap)
    /\ UNCHANGED <<db, serviceVars>>

\* clearDB(): "if (this.db) { close; await deleteDB; this.db = null }", a
\* rejection of deleteDB is caught
ClearDB(ok) ==
    /\ IF db \in {"open", "closed"}
       THEN /\ db' = IF ok THEN "null" ELSE "closed"
            /\ store' = IF ok THEN EmptyMap ELSE store
       ELSE UNCHANGED <<db, store>>
    /\ dbCall' = [op |-> "clearDB", db |-> db, ok |-> ok, settled |-> "resolved",
                  logged |-> IF db \in {"open", "closed"} /\ ~ok THEN "RequestError" ELSE "none",
                  result |-> "void", entries |-> EmptyMap]
    /\ UNCHANGED serviceVars

\* the application using the adapter on its own, one call after the other
AdapterNext ==
    \/ \E ok \in BOOLEAN : DbInit(ok)
    \/ \E key \in Keys, value \in SavedValues, ok \in BOOLEAN : SaveToCache(key, value, ok)
    \/ \E key \in Keys, ok \in BOOLEAN : GetFromCache(key, ok)
    \/ \E ok \in BOOLEAN : GetAllFromCache(ok)
    \/ \E ok \in BOOLEAN : ClearCache(ok)
    \/ \E ok \in BOOLEAN : ClearDB(ok)

AdapterSpec == Init /\ [][AdapterNext]_vars

\* ------------------------------------------------------------ the system

Next ==
    \/ \E cfg \in Configs : InitCall(cfg)
    \/ CallersSettle
    \/ \E ok \in BOOLEAN : OpenSettle(ok)
    \/ \E outcome \in {"ok", "notOk", "rejected", "badJson"}, data \in FetchData : FetchSettle(outcome, data)
    \/ \E ok \in BOOLEAN : PutComplete(ok)
    \/ \E ok \in BOOLEAN : GetAllComplete(ok)
    \/ \E ok \in BOOLEAN : GetAllKeysComplete(ok)
    \/ \E lang \in Langs : SetLanguage(lang)
    \/ SetLanguageResume
    \/ ClearModuleCache
    \/ ClearAllCache
    \/ \E ok \in BOOLEAN : ClearComplete(ok)
    \/ \E ok \in BOOLEAN : DeleteComplete(ok)
    \/ \E i \in 1..MaxCalls : ClearDone(i)
    \/ \E key \in TranslateKeys : Translate(key)
    \/ \E i \in 1..MaxCalls : TranslateResume(i)

Spec == Init /\ [][Next]_vars

\* what the event loop does on its own: the continuations of settled
\* promises, and the completions of openDB, of fetch and of the IndexedDB
\* requests
EventLoop ==
    \/ CallersSettle
    \/ SetLanguageResume
    \/ \E i \in 1..MaxCalls : ClearDone(i)
    \/ \E i \in 1..MaxCalls : TranslateResume(i)
    \/ \E ok \in BOOLEAN : OpenSettle(ok)
    \/ \E outcome \in {"ok", "notOk", "rejected", "badJson"}, data \in FetchData : FetchSettle(outcome, data)
    \/ \E ok \in BOOLEAN : PutComplete(ok)
    \/ \E ok \in BOOLEAN : GetAllComplete(ok)
    \/ \E ok \in BOOLEAN : GetAllKeysComplete(ok)
    \/ \E ok \in BOOLEAN : ClearComplete(ok)
    \/ \E ok \in BOOLEAN : DeleteComplete(ok)

\* the fetch and every store operation eventually settle, and the event loop
\* runs what is ready
LiveSpec == Init /\ [][Next]_vars /\ WF_vars(EventLoop)

\* ------------------------------------------------------------ TranslatePipe

\* emissions on subscription: the null of startWith, then the value the
\* BehaviorSubject behind onLangChange replays
subscribeCount == 2

\* transform(key) and the subscription of the async pipe to its result
Subscribe(key) ==
    /\ nCalls < MaxCalls
    /\ nCalls' = nCalls + 1
    /\ ~pipe.subscribed
    /\ pipe' = [key |-> key, subscribed |-> TRUE, count |-> subscribeCount, last |-> instant(key)]
    /\ UNCHANGED <<dbVars, currentLang, langChangeSubject, lastSet, acceptedLanguages,
                   translations, initVars, callers, setLangQ, clearOps, countVars,
                   populated, failedPuts, initialStore, cacheRead, translateOps, dbCall>>

\* a template using the pipe while the service initializes and the language
\* is changed
PipeNext ==
    \/ \E key \in Keys : Subscribe(key)
    \/ \E cfg \in Configs : InitCall(cfg)
    \/ CallersSettle
    \/ \E ok \in BOOLEAN : OpenSettle(ok)
    \/ \E outcome \in {"ok", "notOk", "rejected", "badJson"}, data \in FetchData : FetchSettle(outcome, data)
    \/ \E ok \in BOOLEAN : PutComplete(ok)
    \/ \E ok \in BOOLEAN : GetAllComplete(ok)
    \/ \E ok \in BOOLEAN : GetAllKeysComplete(ok)
    \/ \E lang \in Langs : SetLanguage(lang)
    \/ SetLanguageResume

PipeSpec == Init /\ [][PipeNext]_vars

\* ------------------------------------------------------------ helpers of the properties

\* the calls of init made before the initialization finished
EarlyCallers == {i \in 1..Len(callers) : callers[i].joined # "resolved" /\ validateConfig(callers[i].cfg)}

\* ------------------------------------------------------------ C1

\* C1: offline-first.  If the durable store holds at least one entry when
\* init starts, init never invokes the remote fetch, and the snapshot it
\* leaves is the content of the store.
C1_OfflineFirst ==
    DOMAIN initialStore # {} =>
        /\ fetches = 0
        /\ (initPromise = "resolved" /\ clearOps = <<>> => translations = initialStore)

\* ------------------------------------------------------------ C2

\* C2: over any sequence of init calls the store is opened exactly once and
\* the fetch is issued at most once; a call after the first changes nothing
\* and its promise follows the promise of the first call.
C2_StateOk ==
    /\ dbOpens <= 1
    /\ fetches <= 1
    /\ (initPromise # "null" => dbOpens = 1)
    /\ \A i \in 1..Len(callers) :
          (callers[i].joined # "null" /\ callers[i].st # "pending") => callers[i].st = initPromise

C2_JoinStep ==
    (initPromise # "null" /\ Len(callers') = Len(callers) + 1) =>
        /\ UNCHANGED <<db, store, dbQueue, currentLang, acceptedLanguages, translations,
                       loadingState, langChangeSubject, initPromise, config, initPc,
                       response, fetchOutcome, cachedEntries, setLangQ, clearOps,
                       dbOpens, fetches, loadPasses>>
        /\ callers'[Len(callers')].st = "pending"
        /\ callers'[Len(callers')].joined = initPromise

C2_InitOnce == [](C2_StateOk) /\ [][C2_JoinStep]_vars

C2_Witness ==
    /\ Len(callers) >= 2
    /\ \A i \in 1..Len(callers) : callers[i].cfg = CfgA /\ callers[i].st = "resolved"
    /\ \E i \in 1..Len(callers) : callers[i].joined = "pending"
    /\ dbOpens = 1
    /\ fetches = 1

\* ------------------------------------------------------------ C3

\* C3: when several init calls are made before the initialization has
\* finished, loadTranslations runs once and the promises of all these calls
\* settle together and alike.
C3_OnePass ==
    /\ loadPasses <= 1
    /\ \A i, j \in EarlyCallers :
          /\ (callers[i].st = "pending") <=> (callers[j].st = "pending")
          /\ callers[i].st = callers[j].st
    /\ \A i \in EarlyCallers : callers[i].st # "pending" => initPromise = callers[i].st

C3_Witness ==
    /\ Cardinality(EarlyCallers) >= 2
    /\ \A i \in EarlyCallers : callers[i].st = "resolved"
    /\ loadPasses = 1

\* ------------------------------------------------------------ C4

\* C4: instant(key) never returns an empty string or undefined, whatever the
\* snapshot holds and whatever the initialization state.
C4_NeverEmpty ==
    \A k \in Keys : instant(k) # "" /\ instant(k) # Undefined

\* ------------------------------------------------------------ C5

SpecFallback(key, entry) ==
    IF Truthy(Prop(entry, config.defaultLang)) THEN Prop(entry, config.defaultLang)
    ELSE IF Len(entry) > 0 THEN entry[1].text
    ELSE key

\* C6: when the snapshot has an entry for the key but no text for
\* currentLang, instant(key) is the entry's text for config.defaultLang if
\* present, otherwise the text of the entry's first language, otherwise the
\* key; wherever defaultLang stands in acceptedLanguages.
C6_FallbackOrder ==
    \A k \in DOMAIN translations :
        (initPromise # "null" /\ Prop(translations[k], currentLang) = Undefined)
            => instant(k) = SpecFallback(k, translations[k])

\* ------------------------------------------------------------ C7

\* C7: round trip.  After init has resolved, every entry the population pass
\* has put in the snapshot is served: the key is in the snapshot as long as
\* no invalidation was invoked, and while it is there instant(key) is the
\* entry's text for currentLang whenever the entry has one.
C7_RoundTrip ==
    initPromise = "resolved" =>
        \A k \in DOMAIN populated :
            /\ clearOps = <<>> => k \in DOMAIN translations
            /\ k \in DOMAIN translations =>
                  /\ translations[k] = populated[k]
                  /\ Prop(populated[k], currentLang) # Undefined
                        => instant(k) = Prop(populated[k], currentLang)

C7_Witness ==
    /\ initPromise = "resolved"
    /\ "K1" \in DOMAIN populated
    /\ populated["K1"] = Hello
    /\ currentLang = "fr"
    /\ First(acceptedLanguages) = "en"
    /\ instant("K1") = "Bonjour"

\* ------------------------------------------------------------ C8

\* the fetched mapping is in the store and in the snapshot, and is served
FetchedEverywhere ==
    \A k \in DOMAIN response :
        /\ k \in DOMAIN store /\ store[k] = response[k]
        /\ k \in DOMAIN translations /\ translations[k] = response[k]
        /\ Prop(response[k], currentLang) # Undefined
              => instant(k) = Prop(response[k], currentLang)

\* init found the store empty, fetched a mapping and has resolved, and no
\* invalidation was invoked
CacheMissFetched ==
    /\ DOMAIN initialStore = {}
    /\ fetchOutcome = "ok"
    /\ initPromise = "resolved"
    /\ clearOps = <<>>

SetLanguageStep == setLangQ' # setLangQ \/ lastSet' # lastSet \/ currentLang' # currentLang

\* C9: after the initialization has finished, setLanguage changes only
\* currentLang and the language-change notification: no storage request and
\* no fetch is started, snapshot and store stay as they are; when it returns,
\* the language is the requested one and instant serves the entry's text for it.
C9_Step ==
    (~loadingState /\ SetLanguageStep) =>
        /\ UNCHANGED <<db, store, dbQueue, translations, acceptedLanguages,
                       loadingState, initPromise, config, initPc, response,
                       fetchOutcome, cachedEntries, callers, clearOps,
                       dbOpens, fetches, loadPasses>>
        /\ Len(setLangQ') < Len(setLangQ) =>
              /\ langChangeSubject' = currentLang'
              /\ Head(setLangQ) \in Range(acceptedLanguages) =>
                    /\ currentLang' = Head(setLangQ)
                    /\ \A k \in DOMAIN translations :
                          Prop(translations[k], Head(setLangQ)) # Undefined
                             => instant(k)' = Prop(translations[k], Head(setLangQ))

C10_UnsupportedLanguage ==
    (config # NoConfig /\ lastSet.user /\ ~lastSet.supported)
        => currentLang = config.defaultLang

\* ------------------------------------------------------------ C11

C12_ReinitAfterClearAll ==
    \A i \in 1..Len(callers) :
        (callers[i].afterAll /\ validateConfig(callers[i].cfg) /\ callers[i].st = "resolved")
            => dbOpens > callers[i].opens

\* ------------------------------------------------------------ C13

\* C13: when a clearModuleCache that found entries in the snapshot ends, the
\* durable store and the snapshot are either both empty or both not: it does
\* not end with one of them cleared and the other still holding entries.
C13_Step ==
    \A i \in 1..Len(clearOps) :
        (/\ clearOps[i].kind = "module"
         /\ clearOps[i].known # {}
         /\ clearOps[i].pc # "done"
         /\ clearOps'[i].pc = "done")
            => ((DOMAIN store' = {}) <=> (DOMAIN translations' = {}))

C13_ClearModuleAtomic == [][C13_Step]_vars

\* ------------------------------------------------------------ C14

\* C14: once init has finished, the snapshot and the durable store hold the
\* same keys: no key is present in exactly one of the two.  Stated here for
\* the states in which the store was opened, no storage request has failed
\* and no invalidation has been invoked.
C14_SameKeys ==
    (/\ initPc = "done"
     /\ db = "open"
     /\ failedPuts = {}
     /\ cacheRead # "failed"
     /\ clearOps = <<>>)
        => DOMAIN translations = DOMAIN store

\* ------------------------------------------------------------ C15

\* the default language is not among the accepted ones (none, if there are none)
ConfigInvalid(cfg) == cfg.defaultLang \notin Range(cfg.acceptedLanguages)

\* no initialization has been started and nothing of the service has changed
\* other than through setLanguage
Untouched ==
    /\ dbOpens = 0
    /\ fetches = 0
    /\ db = "undefined"
    /\ dbQueue = <<>>
    /\ acceptedLanguages = <<>>
    /\ translations = EmptyMap
    /\ loadingState
    /\ ~lastSet.user => currentLang = "en" /\ langChangeSubject = "en"

C16_CacheOnFetchFailure ==
    (fetchOutcome = "failed" /\ cacheRead = "ok") =>
        /\ initPromise = "resolved"
        /\ \A k \in DOMAIN store : k \in DOMAIN populated /\ populated[k] = store[k]
        /\ clearOps = <<>> =>
              \A k \in DOMAIN store :
                  /\ k \in DOMAIN translations /\ translations[k] = store[k]
                  /\ Prop(store[k], currentLang) # Undefined
                        => instant(k) = Prop(store[k], currentLang)

C16_Witness ==
    /\ fetchOutcome = "failed"
    /\ cacheRead = "ok"
    /\ clearOps = <<>>
    /\ DOMAIN store = Keys
    /\ translations = store
    /\ currentLang = "fr"
    /\ instant("K1") = "Login"
    /\ instant("K2") = "Bonjour"

\* ------------------------------------------------------------ C17

\* C17: when the fetch has failed and the durable store was empty or could
\* not be read, the initialization ends in failure: the promise of init is
\* rejected, while instant returns the key for every key.
C17_FailedWhenNothingLoads ==
    (/\ fetchOutcome = "failed"
     /\ initPc = "done"
     /\ DOMAIN initialStore = {} \/ cacheRead = "failed")
        => /\ initPromise = "rejected"
           /\ \A i \in 1..Len(callers) :
                 callers[i].st # "pending" => callers[i].st = "rejected"
           /\ \A k \in Keys : instant(k) = k

\* ------------------------------------------------------------ C18

\* C18: a translate(key) called while the initialization is in flight has
\* not settled before the initialization has finished; it then resolves with
\* what instant(key) returns at that moment, the key itself if the key was
\* never loaded.
C18_TranslateWaits ==
    \A i \in 1..Len(translateOps) :
        (translateOps[i].during = "pending" /\ translateOps[i].pc # "waiting") =>
            /\ initPromise = "resolved"
            /\ ~loadingState
            /\ translateOps[i].pc = "resolved"
            /\ translateOps[i].result = translateOps[i].instantThen
            /\ translateOps[i].key \notin DOMAIN populated
                  => translateOps[i].result = translateOps[i].key

C18_Witness ==
    \E i \in 1..Len(translateOps) :
        /\ translateOps[i].during = "pending"
        /\ translateOps[i].pc = "resolved"
        /\ translateOps[i].key = "K1"
        /\ translateOps[i].result = "Bonjour"
        /\ currentLang = "fr"

\* ------------------------------------------------------------ C19

\* C19: after a setLanguage(l) with l among the accepted languages has
\* returned, and until the next one does, instant(key) returns the entry's
\* text for l for every entry of the snapshot that has one, in every
\* initialization state.
C19_LanguageTakesEffect ==
    (lastSet.user /\ lastSet.supported) =>
        \A k \in DOMAIN translations :
            Prop(translations[k], currentLang) # Undefined
                => instant(k) = Prop(translations[k], currentLang)

\* ------------------------------------------------------------ C20

\* C20: for one snapshot, current language and key, the branch instant takes
\* while loading (getTranslationFallback) and the branch it takes when ready
\* (getTranslation) return the same string.
C20_SameResolution ==
    initPromise # "null" =>
        \A k \in Keys : getTranslationFallback(k) = getTranslation(k)

\* ------------------------------------------------------------ C21

C22_ReplayLatest == langChangeSubject = currentLang

C22_Witness ==
    /\ initPromise = "resolved"
    /\ lastSet.user
    /\ ~lastSet.loading
    /\ ~lastSet.supported
    /\ config = CfgB
    /\ currentLang = "en"
    /\ langChangeSubject = "en"

\* ------------------------------------------------------------ C23

\* the entries of the shared database that are not of this instance's module:
\* they were there at construction and the instance has not fetched their keys
OtherModulesKeys == DOMAIN initialStore \ DOMAIN response

\* C23: clearModuleCache removes only the durable values of the instance's
\* own module: as long as only clearModuleCache has been invoked, the entries
\* of other modules in the same database are in the store as they were.
C23_OtherModulesKept ==
    (\A i \in 1..Len(clearOps) : clearOps[i].kind = "module") =>
        \A k \in OtherModulesKeys : k \in DOMAIN store /\ store[k] = initialStore[k]

\* ------------------------------------------------------------ C24

\* C24: clearModuleCache and clearAllCache reload after clearing: once a call
\* that found entries in the snapshot has resolved, a new load has run and
\* the snapshot holds entries again.
C24_ReloadAfterClear ==
    \A i \in 1..Len(clearOps) :
        (clearOps[i].pc = "done" /\ clearOps[i].known # {}) =>
            /\ loadPasses >= 2
            /\ DOMAIN translations # {}

\* ------------------------------------------------------------ C25

\* C25: while the initialization is in flight no step removes a key from
\* the snapshot, whatever the other operations do at its await points.
C25_AnyStep == initPromise = "pending" => DOMAIN translations \subseteq DOMAIN translations'

C25_SnapshotGrows == [][C25_AnyStep]_vars

\* ------------------------------------------------------------ C26

InitializationState ==
    CASE initPromise = "null" -> "UNINITIALIZED"
      [] initPromise = "pending" -> "INITIALIZING"
      [] initPromise = "resolved" -> "READY"
      [] initPromise = "rejected" -> "FAILED"

\* C27: the initialization state changes only from UNINITIALIZED to
\* INITIALIZING, in a call of init, and from INITIALIZING to READY or FAILED;
\* no step of setLanguage, translate or an invalidation changes it, and the
\* loading flag is up exactly until READY or FAILED is reached.
C27_Step ==
    /\ InitializationState' # InitializationState =>
          \/ /\ InitializationState = "UNINITIALIZED"
             /\ InitializationState' = "INITIALIZING"
             /\ Len(callers') = Len(callers) + 1
          \/ /\ InitializationState = "INITIALIZING"
             /\ InitializationState' \in {"READY", "FAILED"}
    /\ (\/ setLangQ' # setLangQ
        \/ lastSet'.user /\ lastSet' # lastSet
        \/ translateOps' # translateOps
        \/ clearOps' # clearOps) => InitializationState' = InitializationState
    /\ loadingState' <=> InitializationState' \in {"UNINITIALIZED", "INITIALIZING"}

C27_Transitions == [][C27_Step]_vars

C27_Witness ==
    /\ InitializationState = "READY"
    /\ ~loadingState
    /\ \E i \in 1..Len(clearOps) : clearOps[i].kind = "module" /\ clearOps[i].during = "pending"
    /\ \E i \in 1..Len(translateOps) : translateOps[i].during = "null" /\ translateOps[i].pc = "resolved"

\* ------------------------------------------------------------ C28

StoreMethods == {"saveToCache", "getFromCache", "getAllFromCache", "clearCache"}

\* C29: saveToCache, getFromCache, getAllFromCache and clearCache, called
\* before init has opened the store or after clearDB has destroyed it, fail:
\* the promise of the call is rejected.
C29_NotInitializedFails ==
    (dbCall.op \in StoreMethods /\ dbCall.db # "open") => dbCall.settled = "rejected"

\* ------------------------------------------------------------ C30

\* a call on a store that is not open or whose request failed
CallFailedInside == dbCall.db # "open" \/ ~dbCall.ok

C30_State ==
    /\ dbCall.settled \in {"none", "resolved"}
    /\ (dbCall.op = "getFromCache" /\ CallFailedInside) => dbCall.result = "null"
    /\ (dbCall.op = "getAllFromCache" /\ CallFailedInside) =>
          dbCall.result = "map" /\ dbCall.entries = EmptyMap

C30_Step ==
    /\ (dbCall'.op \in {"saveToCache", "clearCache"} /\ (db # "open" \/ ~dbCall'.ok))
          => store' = store /\ db' = db
    /\ (dbCall'.op = "clearDB" /\ (db \in {"undefined", "null"} \/ ~dbCall'.ok))
          => store' = store

NoSetSinceInit == ~lastSet.user /\ setLangQ = <<>>

\* C31 as stated: after any init(config) has resolved, with no setLanguage
\* since, currentLang is the defaultLang of the config that call was given.
C31_AsStated ==
    \A i \in 1..Len(callers) :
        (callers[i].st = "resolved" /\ NoSetSinceInit) => currentLang = callers[i].cfg.defaultLang

\* C31: the init call that starts the initialization sets currentLang to its
\* config.defaultLang before any storage or network I/O: from that call on,
\* and after its promise has resolved, currentLang is that defaultLang as
\* long as no setLanguage has been called since, whatever was set before.
C31_LanguageFromConfig ==
    /\ (initPromise # "null" /\ NoSetSinceInit) =>
          /\ currentLang = config.defaultLang
          /\ langChangeSubject = config.defaultLang
    /\ \A i \in 1..Len(callers) :
          (callers[i].joined = "null" /\ callers[i].st # "rejected" /\ NoSetSinceInit) =>
              currentLang = callers[i].cfg.defaultLang

\* setLanguage, then init(CfgB), resolved: the language is "fr"
C31_Witness ==
    /\ Len(callers) = 1
    /\ callers[1].cfg = CfgB
    /\ callers[1].st = "resolved"
    /\ nCalls = 2
    /\ translateOps = <<>>
    /\ clearOps = <<>>
    /\ NoSetSinceInit
    /\ currentLang = "fr"

\* ------------------------------------------------------------ C32

\* C32: once the initialization has finished (loading flag false),
\* currentLang is one of acceptedLanguages, whatever setLanguage calls
\* were made before, during or after the initialization.
C32_LanguageSupported ==
    ~loadingState => currentLang \in Range(acceptedLanguages)

\* ------------------------------------------------------------ C33

\* the calls of init with a valid config that only calls with an invalid
\* config preceded
FirstValidCallers ==
    {j \in 1..Len(callers) :
        /\ validateConfig(callers[j].cfg)
        /\ \A i \in 1..(j - 1) : ~validateConfig(callers[i].cfg)}

\* C33: a failed validation does not consume the initialization.  While
\* only invalid configs have been passed, every call is rejected, nothing
\* is opened and no promise is kept; the first call with a valid config
\* joins nothing: it opens the store, and once it has resolved the
\* population pass has run and the snapshot holds what the pass set (unless
\* cleared since).
C33_InvalidNotConsumed ==
    /\ (\A i \in 1..Len(callers) : ~validateConfig(callers[i].cfg)) =>
          /\ initPromise = "null"
          /\ dbOpens = 0
          /\ \A i \in 1..Len(callers) : callers[i].st = "rejected"
    /\ \A j \in FirstValidCallers :
          /\ callers[j].joined = "null"
          /\ callers[j].opens = 0
          /\ dbOpens = 1
          /\ config = callers[j].cfg
          /\ callers[j].st # "rejected"
          /\ callers[j].st = "resolved" =>
                /\ loadPasses = 1
                /\ (fetchOutcome = "ok" => populated = response)
                /\ (clearOps = <<>> => translations = populated)

C33_Witness ==
    /\ Len(callers) = 2
    /\ callers[1].cfg = CfgBad
    /\ callers[1].st = "rejected"
    /\ callers[2].cfg = CfgA
    /\ callers[2].st = "resolved"
    /\ db = "open"
    /\ DOMAIN translations = Keys
    /\ DOMAIN store = Keys

\* ------------------------------------------------------------ C34

\* a population pass from a successful fetch on an open store in which no
\* write has failed: under way, or over with nothing cleared since
PassWithoutFailure ==
    /\ fetchOutcome = "ok"
    /\ failedPuts = {}
    /\ \/ initPc = "saving"
       \/ initPc = "done" /\ db = "open" /\ clearOps = <<>>

\* C34: during the population from a successful fetch a key enters the
\* snapshot only after its durable write has completed: as long as no write
\* has failed, every entry of the snapshot is in the store with the same
\* value.
C34_WriteBeforeSet ==
    PassWithoutFailure =>
        \A k \in DOMAIN translations : k \in DOMAIN store /\ store[k] = translations[k]

\* half way through the pass: K1 written and set, K2 neither
C34_Witness ==
    /\ initPc = "saving"
    /\ fetchOutcome = "ok"
    /\ failedPuts = {}
    /\ initialStore = EmptyMap
    /\ DOMAIN translations = {"K1"}
    /\ DOMAIN store = {"K1"}
    /\ "K2" \in DOMAIN response

\* ------------------------------------------------------------ C35

C35_State ==
    \A j \in 1..Len(callers) :
        (callers[j].joined # "null" /\ callers[j].cfg # config) =>
            /\ acceptedLanguages = config.acceptedLanguages
            /\ dbOpens = 1
            /\ callers[j].st \in {"pending", initPromise}

C35_Step ==
    (initPromise # "null" /\ Len(callers') = Len(callers) + 1
        /\ callers'[Len(callers')].cfg # config) =>
        /\ acceptedLanguages' = acceptedLanguages
        /\ currentLang' = currentLang
        /\ langChangeSubject' = langChangeSubject
        /\ config' = config
        /\ db' = db /\ store' = store /\ dbQueue' = dbQueue /\ dbOpens' = dbOpens
        /\ translations' = translations
        /\ initPromise' = initPromise
        /\ callers'[Len(callers')].joined = initPromise

\* C35: the first configuration wins.  An init call with a different
\* config, made after a call with a valid config, changes neither
\* acceptedLanguages, currentLang, the database nor the snapshot, and its
\* promise settles as the promise of the first call.
C35_FirstConfigWins == [](C35_State) /\ [][C35_Step]_vars

\* init(CfgA), then init(CfgB): both resolved, the language is CfgA's
C35_Witness ==
    /\ Len(callers) = 2
    /\ callers[1].cfg = CfgA
    /\ callers[2].cfg = CfgB
    /\ callers[2].joined # "null"
    /\ callers[1].st = "resolved"
    /\ callers[2].st = "resolved"
    /\ config = CfgA
    /\ currentLang = "en"
    /\ nCalls = 2

\* ------------------------------------------------------------ C36

\* the initialization is under way, or a promise returned by init is pending
InitUnsettled ==
    \/ initPromise = "pending"
    \/ \E i \in 1..Len(callers) : callers[i].st = "pending"

\* the initialization is over, the loading flag is false and every promise
\* returned by init has settled
InitSettled ==
    /\ initPromise \in {"resolved", "rejected"}
    /\ ~loadingState
    /\ \A i \in 1..Len(callers) : callers[i].st # "pending"

\* C36: provided the fetch and each store operation eventually settle, the
\* initialization eventually ends with the loading flag false, the promise
\* of every init call eventually settles, and the loading flag, once false,
\* never becomes true again.
C36_Terminates ==
    /\ InitUnsettled ~> InitSettled
    /\ [][~loadingState => ~loadingState']_vars

C36_Witness ==
    /\ Len(callers) = 2
    /\ \A i \in 1..2 : validateConfig(callers[i].cfg) /\ callers[i].st = "resolved"
    /\ callers[2].joined = "pending"
    /\ initPromise = "resolved"
    /\ ~loadingState
    /\ loadPasses = 1

\* ------------------------------------------------------------ C37

\* a step in which setLanguage assigns the language and emits it: the one
\* init makes, a resumed call, or a call applied at once
LanguageChangeStep ==
    \/ initPromise = "null" /\ initPromise' = "pending"
    \/ Len(setLangQ') < Len(setLangQ)
    \/ /\ nCalls' = nCalls + 1
       /\ callers' = callers
       /\ setLangQ' = setLangQ
       /\ pipe'.subscribed = pipe.subscribed

C37_Step ==
    /\ (~pipe.subscribed /\ pipe'.subscribed) =>
          /\ pipe'.count >= 1
          /\ \A key \in Keys : pipe'.key = key => pipe'.last = instant(key)'
    /\ (pipe.subscribed /\ LanguageChangeStep) =>
          /\ pipe'.count = pipe.count + 1
          /\ \A key \in Keys : pipe.key = key => pipe'.last = instant(key)'

\* C37: the observable of TranslatePipe.transform(key) emits instant(key)
\* on subscription, and after every language change made by setLanguage it
\* emits once more what instant(key) returns with the new language.
C37_PipeEmits == [][C37_Step]_vars

\* subscribed once ready in "en", then setLanguage("fr"): "Bonjour" emitted
C37_Witness ==
    /\ pipe.subscribed
    /\ pipe.key = "K1"
    /\ pipe.count = 3
    /\ pipe.last = "Bonjour"
    /\ currentLang = "fr"
    /\ initPromise = "resolved"
    /\ lastSet.user

====
